---- MODULE Spec2Model ----
(***************************************************************************)
(* A model of the toy-rt path tracer: the recursive integrator `color`     *)
(* (src/main.rs), Scene::pixel_color (trt-core/src/scene.rs), the parallel *)
(* render driver (ImageViewer::new in src/main.rs), MovingSphere           *)
(* (trt-core/src/hit/moving_sphere.rs), the rotation combinators           *)
(* (trt-core/src/hit/rotate.rs), the materials Metal, Lambertian and       *)
(* Isotropic, refract and schlick (src/main.rs), eval_scene                *)
(* (trt-dsl/src/lib.rs) and PyFuture (trt-dsl/src/future.rs).              *)
(*                                                                         *)
(* f32 values are modelled in fixed point: a colour channel c is the       *)
(* integer c * ColorScale, a geometric quantity g the integer              *)
(* g * GeomScale.  Products, quotients and square roots are rounded down   *)
(* to the grid, where the code rounds to the nearest f32.  NaN, which the  *)
(* code produces as the square root of a negative channel, is a value off  *)
(* the grid.                                                               *)
(*                                                                         *)
(* Each component has its own variables and its own specification; a       *)
(* specification holds the other components' variables at their idle       *)
(* values.                                                                 *)
(***************************************************************************)
EXTENDS Integers, Sequences, FiniteSets, TLC

VARIABLES
    \* ---- integrator: color (src/main.rs) ----
    world,      \* the scene handed to color: ray -> material hit, or "none"
    rnd,        \* state of the random source the materials draw from
    stack,      \* the call stack of color: one frame per active call
    result,     \* what the outermost call returned, <<>> before
    \* ---- Scene::pixel_color (trt-core/src/scene.rs) ----
    scene,      \* the Scene: world, ambiant_color, samples_per_px, width, height
    pixel,      \* the pixel (x, y) evaluated, and the seed of the supplied rng
    evals,      \* the evaluations of pixel_color made so far, in order
    \* ---- the parallel render driver (ImageViewer::new, src/main.rs) ----
    nthreads,   \* worker threads of the pool
    pending,    \* pixel jobs no worker has taken yet
    active,     \* pixel jobs being computed, each with its own accumulator
    pieces,     \* the bytes each position of the parallel iterator yielded
    writes,     \* how many times each pixel's bytes were yielded
    bytes,      \* the collected Vec<u8>, <<>> before collect() returns
    \* ---- one pixel job of the driver, fed arbitrary radiance ----
    postCol,    \* the accumulator `col`
    postN,      \* samples accumulated
    postChan,   \* col after `col /= RAYS_PER_PX; col = col.sqrt()`, <<>> before
    postOut,    \* the three bytes emitted, <<>> before
    \* ---- MovingSphere (trt-core/src/hit/moving_sphere.rs) ----
    msphere,    \* the sphere: center0, center1, time0, time1, radius
    mray,       \* the ray handed to hit: origin, direction, time
    mrange,     \* the bounds (t_min, t_max) handed to hit
    mhit,       \* what hit returned, <<>> before the call
    mbox,       \* what bounding_box returned and for which t0, t1, <<>> before
    \* ---- RotateX / RotateY / RotateZ (trt-core/src/hit/rotate.rs) ----
    rotArgs,    \* the combinator built: its axis, angle and child's box
    rot,        \* the combinator: sin_theta, cos_theta, bbox; <<>> before new
    rotRec,     \* what hit returned, <<>> before the call
    \* ---- materials: Metal, Lambertian, Isotropic ----
    matArgs,    \* the material asked for: kind, albedo, fuzz requested
    material,   \* the material built, <<>> before
    matCall,    \* the arguments of scatter: r_in and rec
    scattered,  \* what scatter returned, <<>> before the call
    \* ---- refract and schlick (src/main.rs) ----
    optArgs,    \* the arguments: v, n, ni_over_nt, cosine, ref_idx
    optOut,     \* what refract and schlick returned, <<>> before
    \* ---- eval_scene (trt-dsl/src/lib.rs) ----
    source,     \* the source handed to eval_scene: how each stage fares on it
    stage,      \* the stage eval_scene is about to run
    ran,        \* the stages run so far, in order
    outcome,    \* what eval_scene returned, <<>> before
    \* ---- PyFuture (trt-dsl/src/future.rs) ----
    inner,      \* the future handed to PyFuture::new: polls left, runs, output
    shared,     \* the Shared cell: the output once the inner future is done
    handles,    \* the futures obtained from shared() or map: state of each
    woken       \* the handles registered to be woken

colorVars == <<world, rnd, stack, result>>

pixelVars == <<scene, pixel, evals>>

renderVars == <<nthreads, pending, active, pieces, writes, bytes>>

postVars == <<postCol, postN, postChan, postOut>>

sphereVars == <<msphere, mray, mrange, mhit, mbox>>

rotateVars == <<rotArgs, rot, rotRec>>

materialVars == <<matArgs, material, matCall, scattered>>

opticsVars == <<optArgs, optOut>>

evalVars == <<source, stage, ran, outcome>>

futureVars == <<inner, shared, handles, woken>>

\* The components after the rotations.
laterVars == <<materialVars, opticsVars, evalVars, futureVars>>

vars == <<world, rnd, stack, result, scene, pixel, evals,
          nthreads, pending, active, pieces, writes, bytes,
          postCol, postN, postChan, postOut,
          msphere, mray, mrange, mhit, mbox, rotArgs, rot, rotRec,
          matArgs, material, matCall, scattered, optArgs, optOut,
          source, stage, ran, outcome, inner, shared, handles, woken>>

\* The variables of the components other than the named one.
notColor == <<pixelVars, renderVars, postVars, sphereVars, rotateVars,
    laterVars>>

notPixel == <<colorVars, renderVars, postVars, sphereVars, rotateVars,
    laterVars>>

notRender == <<colorVars, pixelVars, postVars, sphereVars, rotateVars,
    laterVars>>

notPost == <<colorVars, pixelVars, renderVars, sphereVars, rotateVars,
    laterVars>>

notSphere == <<colorVars, pixelVars, renderVars, postVars, rotateVars,
    laterVars>>

notRotate == <<colorVars, pixelVars, renderVars, postVars, sphereVars,
    laterVars>>

\* The components before the materials.
earlierVars ==
    <<colorVars, pixelVars, renderVars, postVars, sphereVars, rotateVars>>

notMaterial == <<earlierVars, opticsVars, evalVars, futureVars>>

notOptics == <<earlierVars, materialVars, evalVars, futureVars>>

notEval == <<earlierVars, materialVars, opticsVars, futureVars>>

notFuture == <<earlierVars, materialVars, opticsVars, evalVars>>

-----------------------------------------------------------------------------
(* Fixed point.                                                            *)

\* Grid of a colour channel: 1.0 is ColorScale.
ColorScale == 10000

\* Colour channel n / d.
CFrac(n, d) == (n * ColorScale) \div d

\* Product of two colour channels.
CMul(x, y) == (x * y) \div ColorScale

\* Vec3::splat
splat(x) == <<x, x, x>>

\* impl Add for Vec3
VAdd(a, b) == <<a[1] + b[1], a[2] + b[2], a[3] + b[3]>>

\* impl Mul for Vec3 (component-wise)
VMul(a, b) == <<CMul(a[1], b[1]), CMul(a[2], b[2]), CMul(a[3], b[3])>>

Black == splat(0)

\* f32::NAN, as a channel value no computation on the grid produces.
NaN == -2147483647

\* The largest r in lo .. hi with r * r <= n.
RECURSIVE ISqrtIn(_, _, _)
ISqrtIn(n, lo, hi) ==
    IF lo >= hi THEN lo
    ELSE LET mid == (lo + hi + 1) \div 2
         IN  IF mid * mid <= n THEN ISqrtIn(n, mid, hi)
                               ELSE ISqrtIn(n, lo, mid - 1)

\* The integer square root of n >= 0 (46340 * 46340 < 2^31).
ISqrt(n) == ISqrtIn(n, 0, 46340)

\* f32::sqrt of a colour channel: NaN for a negative channel (and for NaN).
CSqrt(x) == IF x < 0 THEN NaN ELSE ISqrt(x * ColorScale)

\* Vec3::sqrt
VSqrt(a) == <<CSqrt(a[1]), CSqrt(a[2]), CSqrt(a[3])>>

\* impl Div<f32> for Vec3, by a sample count n
VDivN(a, n) == <<a[1] \div n, a[2] \div n, a[3] \div n>>

\* floor((255 + num / den) * c) for a channel c >= 0 on the grid, computed
\* without leaving 32 bits.
Scale255(c, num, den) ==
    LET w == 255 * c
    IN  (w \div ColorScale)
          + (den * (w % ColorScale) + num * c) \div (den * ColorScale)

-----------------------------------------------------------------------------
(* Idle values: what a component's variables hold in the specifications of *)
(* the other components.                                                   *)

ColorIdle == world = <<>> /\ rnd = 0 /\ stack = <<>> /\ result = <<>>

PixelIdle == scene = <<>> /\ pixel = <<>> /\ evals = <<>>

RenderIdle ==
    /\ nthreads = 0 /\ pending = {} /\ active = {}
    /\ pieces = <<>> /\ writes = <<>> /\ bytes = <<>>

PostIdle == postCol = <<>> /\ postN = 0 /\ postChan = <<>> /\ postOut = <<>>

SphereIdle ==
    /\ msphere = <<>> /\ mray = <<>> /\ mrange = <<>>
    /\ mhit = <<>> /\ mbox = <<>>

RotateIdle == rotArgs = <<>> /\ rot = <<>> /\ rotRec = <<>>

MaterialIdle ==
    matArgs = <<>> /\ material = <<>> /\ matCall = <<>> /\ scattered = <<>>

OpticsIdle == optArgs = <<>> /\ optOut = <<>>

EvalIdle == source = <<>> /\ stage = "" /\ ran = <<>> /\ outcome = <<>>

FutureIdle ==
    inner = <<>> /\ shared = <<>> /\ handles = <<>> /\ woken = {}

LaterIdle == MaterialIdle /\ OpticsIdle /\ EvalIdle /\ FutureIdle

EarlierIdle ==
    /\ ColorIdle /\ PixelIdle /\ RenderIdle /\ PostIdle
    /\ SphereIdle /\ RotateIdle

IdleButColor ==
    /\ PixelIdle /\ RenderIdle /\ PostIdle /\ SphereIdle /\ RotateIdle
    /\ LaterIdle

IdleButPixel ==
    /\ ColorIdle /\ RenderIdle /\ PostIdle /\ SphereIdle /\ RotateIdle
    /\ LaterIdle

IdleButRender ==
    /\ ColorIdle /\ PixelIdle /\ PostIdle /\ SphereIdle /\ RotateIdle
    /\ LaterIdle

IdleButPost ==
    /\ ColorIdle /\ PixelIdle /\ RenderIdle /\ SphereIdle /\ RotateIdle
    /\ LaterIdle

IdleButSphere ==
    /\ ColorIdle /\ PixelIdle /\ RenderIdle /\ PostIdle /\ RotateIdle
    /\ LaterIdle

IdleButRotate ==
    /\ ColorIdle /\ PixelIdle /\ RenderIdle /\ PostIdle /\ SphereIdle
    /\ LaterIdle

IdleButMaterial == EarlierIdle /\ OpticsIdle /\ EvalIdle /\ FutureIdle

IdleButOptics == EarlierIdle /\ MaterialIdle /\ EvalIdle /\ FutureIdle

IdleButEval == EarlierIdle /\ MaterialIdle /\ OpticsIdle /\ FutureIdle

IdleButFuture == EarlierIdle /\ MaterialIdle /\ OpticsIdle /\ EvalIdle

-----------------------------------------------------------------------------
(* The integrator: fn color(ray, world, depth), src/main.rs:33-46.         *)
(*                                                                         *)
(* color is generic over the scene (world: &impl Hit) and reaches the      *)
(* materials only through rec.mat, so a scene is any map from rays to the  *)
(* material hit (or no hit), and a material is what its two methods        *)
(* answer.  A ray is one of NumRays abstract rays.  The random draws of    *)
(* the materials come from a generator whose state is rnd.                 *)

\* Rays the scene distinguishes.
NumRays == 2

Rays == 0 .. (NumRays - 1)

\* Period of the random generator.
RndMod == 8

\* The depth cutoff of color: `if depth < 50`.
MAX_DEPTH == 50

\* Next state of the random generator (rand::thread_rng behind
\* random_in_unit_sphere).
NextRnd(s) == (5 * s + 3) % RndMod

\* The materials a hit record can point to: what emitted() answers, the
\* albedo, and how scatter() behaves.
Materials ==
    [ lambertian |-> [emit |-> Black,
                      albedo |-> <<CFrac(1, 2), CFrac(1, 1), 0>>,
                      kind |-> "diffuse"],
      metal      |-> [emit |-> Black,
                      albedo |-> <<CFrac(4, 5), CFrac(3, 5), CFrac(1, 5)>>,
                      kind |-> "specular"],
      light      |-> [emit |-> splat(CFrac(4, 1)),
                      albedo |-> Black,
                      kind |-> "emissive"],
      ember      |-> [emit |-> <<CFrac(1, 1), CFrac(1, 2), 0>>,
                      albedo |-> splat(CFrac(1, 2)),
                      kind |-> "diffuse"] ]

MatNames == DOMAIN Materials

NoScatter == [some |-> FALSE, ray |-> 0, att |-> Black]

\* rec.mat.emitted(rec.u, rec.v, rec.p)
emitted(m) == Materials[m].emit

\* rec.mat.scatter(ray, &rec) with the random draw d: a diffuse material
\* always scatters, an emissive one never, a specular one only when the
\* perturbed direction leaves the surface (here: an even draw).
scatter(m, ray, d) ==
    LET mat == Materials[m]
        out == [some |-> TRUE, ray |-> (ray + d) % NumRays, att |-> mat.albedo]
    IN  CASE mat.kind = "diffuse"  -> out
          [] mat.kind = "specular" -> IF d % 2 = 0 THEN out ELSE NoScatter
          [] OTHER                 -> NoScatter

\* A Background of the sky gradient's horizon colour instead of black.
BackgroundSky == <<CFrac(1, 2), CFrac(7, 10), CFrac(1, 1)>>

\* What color returns when the ray hits nothing: Vec3::splat(0.).
Background == Black

\* A DepthOk with the cutoff off by one.
DepthOkOffByOne(depth) == depth <= MAX_DEPTH

\* `if depth < 50`
DepthOk(depth) == depth < MAX_DEPTH

\* A Combine that drops the emitted term on the scattering path.
CombineNoEmit(e, att, sub) == VMul(att, sub)

\* `emitted + attenuation * color(&scattered, world, depth + 1)`
Combine(e, att, sub) == VAdd(e, VMul(att, sub))

\* The depth handed to the nested call: `depth + 1`.
NestedDepth(depth) == depth + 1

NewFrame(ray, depth) ==
    [ray |-> ray, depth |-> depth, pc |-> "call", mat |-> "none",
     asked_emit |-> FALSE, asked_scatter |-> FALSE, scat |-> NoScatter,
     emit |-> <<>>, sub |-> <<>>, val |-> <<>>]

Top == stack[Len(stack)]

SetTop(f) == [stack EXCEPT ![Len(stack)] = f]

ColorInit ==
    /\ world \in [Rays -> MatNames \cup {"none"}]
    /\ rnd \in 0 .. (RndMod - 1)
    /\ \E r \in Rays : stack = <<NewFrame(r, 0)>>
    /\ result = <<>>
    /\ IdleButColor

\* world.hit(ray, 0.001, MAX) is None: return Vec3::splat(0.).
ColorMiss ==
    /\ stack # <<>>
    /\ Top.pc = "call"
    /\ world[Top.ray] = "none"
    /\ stack' = SetTop([Top EXCEPT !.pc = "ret", !.val = Background])
    /\ UNCHANGED <<world, rnd, result>>
    /\ UNCHANGED notColor

\* A hit, depth < 50 and the material scatters: the nested call.
ColorScatter ==
    /\ stack # <<>>
    /\ Top.pc = "call"
    /\ world[Top.ray] # "none"
    /\ DepthOk(Top.depth)
    /\ LET m  == world[Top.ray]
           sc == scatter(m, Top.ray, rnd)
       IN  /\ sc.some
           /\ stack' = Append(
                  SetTop([Top EXCEPT !.pc = "wait", !.mat = m,
                                     !.asked_emit = TRUE, !.emit = emitted(m),
                                     !.asked_scatter = TRUE, !.scat = sc]),
                  NewFrame(sc.ray, NestedDepth(Top.depth)))
    /\ rnd' = NextRnd(rnd)
    /\ UNCHANGED <<world, result>>
    /\ UNCHANGED notColor

\* A hit, and depth >= 50 or the material does not scatter: emitted alone.
\* scatter is not called (and draws nothing) once the depth is exhausted.
ColorEmit ==
    /\ stack # <<>>
    /\ Top.pc = "call"
    /\ world[Top.ray] # "none"
    /\ LET m == world[Top.ray]
       IN  \/ /\ ~DepthOk(Top.depth)
              /\ stack' = SetTop([Top EXCEPT !.pc = "ret", !.mat = m,
                                    !.asked_emit = TRUE, !.emit = emitted(m),
                                    !.val = emitted(m)])
              /\ rnd' = rnd
           \/ /\ DepthOk(Top.depth)
              /\ ~scatter(m, Top.ray, rnd).some
              /\ stack' = SetTop([Top EXCEPT !.pc = "ret", !.mat = m,
                                    !.asked_emit = TRUE, !.emit = emitted(m),
                                    !.asked_scatter = TRUE,
                                    !.val = emitted(m)])
              /\ rnd' = NextRnd(rnd)
    /\ UNCHANGED <<world, result>>
    /\ UNCHANGED notColor

\* A nested call returns: the caller computes emitted + attenuation * sub
\* and returns it.
ColorReturn ==
    /\ Len(stack) > 1
    /\ Top.pc = "ret"
    /\ LET caller == stack[Len(stack) - 1]
       IN  stack' = [SubSeq(stack, 1, Len(stack) - 1)
                        EXCEPT ![Len(stack) - 1] =
                            [caller EXCEPT !.pc = "ret", !.sub = Top.val,
                                !.val = Combine(caller.emit, caller.scat.att,
                                                Top.val)]]
    /\ UNCHANGED <<world, rnd, result>>
    /\ UNCHANGED notColor

\* The outermost call returns to the driver.
ColorDone ==
    /\ Len(stack) = 1
    /\ Top.pc = "ret"
    /\ result = <<>>
    /\ result' = Top.val
    /\ UNCHANGED <<world, rnd, stack>>
    /\ UNCHANGED notColor

ColorNext == ColorMiss \/ ColorScatter \/ ColorEmit \/ ColorReturn \/ ColorDone

SpecColor == ColorInit /\ [][ColorNext]_vars

\* The calling thread runs color to its end: it is never suspended forever.
SpecColorFair == SpecColor /\ WF_vars(ColorNext)

-----------------------------------------------------------------------------
(* Claims about the integrator.                                            *)

Frames == {stack[i] : i \in 1 .. Len(stack)}

Returned(f) == f.pc = "ret"

\* The scattering case of a frame: depth < 50 and scatter answered a pair.
Scattered(f) == f.depth < 50 /\ f.asked_scatter /\ f.scat.some

\* C1: when the ray hits, color returns emitted + attenuation * (value of
\* the nested call on the scattered ray at depth + 1), component-wise,
\* exactly when depth < 50 and the material's scatter answers a pair;
\* otherwise (depth >= 50 or no scatter) it makes no nested call and
\* returns emitted alone.
C1_ColorContract ==
    /\ \A f \in Frames :
        (Returned(f) /\ world[f.ray] # "none") =>
            LET e == Materials[world[f.ray]].emit
            IN  /\ f.depth < 50 => f.asked_scatter
                /\ Scattered(f) =>
                     /\ f.sub # <<>>
                     /\ \A c \in 1 .. 3 :
                          f.val[c] = e[c] + (f.scat.att[c] * f.sub[c]) \div ColorScale
                /\ ~Scattered(f) => (f.sub = <<>> /\ f.val = e)
    /\ \A i \in 1 .. (Len(stack) - 1) :
        /\ stack[i].pc = "wait"
        /\ Scattered(stack[i])
        /\ stack[i + 1].ray = stack[i].scat.ray
        /\ stack[i + 1].depth = stack[i].depth + 1

\* C1 witness: a call that hit an emitting, scattering material has
\* returned emitted plus a non-zero attenuated nested value.
C1_Witness ==
    \E f \in Frames :
        /\ Returned(f) /\ Scattered(f)
        /\ world[f.ray] = "ember"
        /\ f.sub # <<>> /\ f.sub # Black
        /\ f.val # f.emit

\* C2: a call of color at depth 0 terminates, and no nested call is made
\* with a depth above 50 (so at most 50 calls are nested in the outermost).
C2_TerminatesWithinDepth ==
    /\ [](/\ \A f \in Frames : f.depth <= 50
          /\ Len(stack) - 1 <= 50)
    /\ <>(result # <<>>)

\* C2 witness: in a scene where every ray hits a material that always
\* scatters, the recursion has reached depth 50 and stopped there.
C2_Witness ==
    /\ \A r \in Rays : world[r] \in {"lambertian", "ember"}
    /\ Len(stack) = 51
    /\ Top.depth = 50
    /\ Returned(Top)

\* C3: when the hit test finds nothing, color returns black (0, 0, 0), the
\* driver's background, at any depth, and asks no material anything.
C3_MissReturnsBackground ==
    \A f \in Frames :
        (Returned(f) /\ world[f.ray] = "none") =>
            /\ f.val = <<0, 0, 0>>
            /\ ~f.asked_emit /\ ~f.asked_scatter
            /\ f.mat = "none" /\ f.sub = <<>>

\* C3 witness: a nested call (depth > 0) whose ray missed has returned.
C3_Witness ==
    \E f \in Frames :
        Returned(f) /\ world[f.ray] = "none" /\ f.depth > 0

-----------------------------------------------------------------------------
(* Scene::pixel_color, trt-core/src/scene.rs:15-29.                        *)
(*                                                                         *)
(* The supplied rng is a generator seeded with pixel.seed; the materials   *)
(* draw from rand::thread_rng(), a generator the caller does not seed      *)
(* (trt-core/src/material/metal.rs:23, src/material/lambertian.rs:19,      *)
(* src/material/isotropic.rs:15).  Camera::get_ray, compute_color and the  *)
(* conversion of the result into a Color are not under src/ and follow     *)
(* the specification.                                                      *)

\* Image size (Scene::width, Scene::height; WIDTH and HEIGHT of the driver).
WIDTH == 2

HEIGHT == 2

\* rng.gen::<f32>() is one of 0/Jitter .. (Jitter-1)/Jitter.
Jitter == 2

\* Largest samples_per_px.
MaxSamples == 2

\* rays_per_sample of a scene: the scatters compute_color follows.
MaxBounces == 3

\* Background colours a scene is configured with.
Ambients == {Black, splat(CFrac(1, 4)), <<CFrac(1, 1), CFrac(1, 4), 0>>}

\* Worlds a scene is built over: nothing; a metal ball before the
\* background; a metal ball before a light; a closed diffuse box; a diffuse
\* ball before the background.
Worlds ==
    { [r \in Rays |-> "none"],
      [r \in Rays |-> IF r = 0 THEN "metal" ELSE "none"],
      [r \in Rays |-> IF r = 0 THEN "metal" ELSE "light"],
      [r \in Rays |-> IF r = 0 THEN "ember" ELSE "lambertian"],
      [r \in Rays |-> IF r = 0 THEN "lambertian" ELSE "none"] }

\* rng.gen::<f32>() of a generator in state s, as a numerator over Jitter.
Gen(s) == (s * Jitter) \div RndMod

\* Camera::get_ray(u, v) for u = un / (WIDTH * Jitter), v = vn / (HEIGHT *
\* Jitter): the ray through that point of the image plane.
get_ray(un, vn) == (un + vn) % NumRays

\* Whether a material's scatter draws from thread_rng.
Draws(m) == Materials[m].kind # "emissive"

\* compute_color(ray, world, ambiant_color, depth): the radiance along ray,
\* following at most depth scatters (pixel_color hands it rays_per_sample),
\* with the thread-local generator in state t.  Answers the value, the
\* generator's state afterwards and the number of draws made from it.
RECURSIVE compute_color(_, _, _, _, _)
compute_color(w, ray, ambient, depth, t) ==
    IF w[ray] = "none" THEN [val |-> ambient, t |-> t, hidden |-> 0]
    ELSE LET m == w[ray]
             e == emitted(m)
         IN  IF depth <= 0 THEN [val |-> e, t |-> t, hidden |-> 0]
             ELSE LET sc == scatter(m, ray, t)
                      t1 == IF Draws(m) THEN NextRnd(t) ELSE t
                      n1 == IF Draws(m) THEN 1 ELSE 0
                  IN  IF ~sc.some THEN [val |-> e, t |-> t1, hidden |-> n1]
                      ELSE LET sub == compute_color(w, sc.ray, ambient,
                                                    depth - 1, t1)
                           IN  [val |-> VAdd(e, VMul(sc.att, sub.val)),
                                t |-> sub.t, hidden |-> sub.hidden + n1]

\* The fold of pixel_color over the k samples left: u and v from the
\* supplied rng, the camera's ray, the radiance added to the sum.
RECURSIVE Samples(_, _, _, _)
Samples(sc, p, k, acc) ==
    IF k = 0 THEN acc
    ELSE LET r1  == NextRnd(acc.rng)
             un  == p.x * Jitter + Gen(acc.rng)
             vn  == p.y * Jitter + Gen(r1)
             ray == get_ray(un, vn)
             c   == compute_color(sc.world, ray, sc.ambient,
                                  sc.rays_per_sample, acc.trng)
         IN  Samples(sc, p, k - 1,
                 [rng |-> NextRnd(r1), trng |-> c.t,
                  sum |-> VAdd(acc.sum, c.val),
                  hits |-> acc.hits + (IF sc.world[ray] = "none" THEN 0 ELSE 1),
                  hidden |-> acc.hidden + c.hidden])

\* A Gamma that leaves the averaged colour as it is.
GammaNone(v) == v

\* `.sqrt()` of the averaged colour.
Gamma(v) == VSqrt(v)

\* `.into()`: the Color of a Vec3, each channel clamp(255.999 * c, 0, 255).
ColorFromVec3(v) ==
    [c \in 1 .. 3 |->
        IF v[c] < 0 THEN 0
        ELSE LET b == Scale255(v[c], 999, 1000) IN IF b > 255 THEN 255 ELSE b]

\* pixel_color(&self, (x, y), rng) with rng seeded by p.seed, on a thread
\* whose thread_rng is in state t.
pixel_color(sc, p, t) ==
    LET f == Samples(sc, p, sc.samples,
                     [rng |-> p.seed, trng |-> t, sum |-> splat(0),
                      hits |-> 0, hidden |-> 0])
        v == Gamma(VDivN(f.sum, sc.samples))
    IN  [col |-> v, out |-> ColorFromVec3(v), hits |-> f.hits,
         hidden |-> f.hidden]

PixelInit ==
    /\ scene \in [world : Worlds, ambient : Ambients,
                  samples : 1 .. MaxSamples, rays_per_sample : {MaxBounces}]
    /\ pixel \in [x : 0 .. (WIDTH - 1), y : 0 .. (HEIGHT - 1),
                  seed : 0 .. (RndMod - 1)]
    /\ evals = <<>>
    /\ IdleButPixel

\* One evaluation of pixel_color for the pixel, with the same seeded rng;
\* the state of thread_rng is whatever the thread left it in.
PixelEval ==
    /\ Len(evals) < 2
    /\ \E t \in 0 .. (RndMod - 1) :
         evals' = Append(evals, pixel_color(scene, pixel, t))
    /\ UNCHANGED <<scene, pixel>>
    /\ UNCHANGED notPixel

PixelNext == PixelEval

SpecPixel == PixelInit /\ [][PixelNext]_vars

-----------------------------------------------------------------------------
(* Claims about pixel_color.                                               *)

Evals == {evals[i] : i \in 1 .. Len(evals)}

\* C4 as stated: a pixel all of whose samples miss has exactly the
\* configured background colour.  Refuted: the result is gamma-corrected.
C4_ExactBackground ==
    \A e \in Evals : e.hits = 0 => e.col = scene.ambient

\* C4 as amended: a pixel all of whose samples miss has the gamma-corrected
\* background colour, the per-channel square root of the ambient colour;
\* for a black background that is exactly black.
C4_GammaBackground ==
    \A e \in Evals : e.hits = 0 =>
        /\ \A c \in 1 .. 3 :
             /\ e.col[c] * e.col[c] <= scene.ambient[c] * ColorScale
             /\ (e.col[c] + 1) * (e.col[c] + 1) > scene.ambient[c] * ColorScale
        /\ scene.ambient = <<0, 0, 0>> =>
             (e.col = <<0, 0, 0>> /\ e.out = [c \in 1 .. 3 |-> 0])

\* C4 witness: several samples, all missing, before a background that is
\* not black, and the pixel is not the background colour.
C4_Witness ==
    \E e \in Evals :
        /\ e.hits = 0
        /\ scene.samples >= 2
        /\ scene.ambient = splat(CFrac(1, 4))
        /\ e.col = splat(CFrac(1, 2))

\* C6: two evaluations of pixel_color for the same scene and pixel, fed the
\* same seeded sequence, return the same colour (every draw being taken
\* from the supplied source).  Refuted by the code: the materials draw from
\* thread_rng, counted in `hidden`, and the colours differ.
C6_Reproducible ==
    Len(evals) = 2 =>
        (evals[1].col = evals[2].col /\ evals[1].out = evals[2].out)

-----------------------------------------------------------------------------
(* The render driver: ImageViewer::new, src/main.rs:528-552.               *)
(*                                                                         *)
(* rayon runs the closure of the second flat_map once per pixel, on any    *)
(* thread of its pool and in any order; collect::<Vec<_>>() puts what each *)
(* position of the parallel iterator yielded in the iterator's order.      *)
(* The accumulator `col` is a local of the closure.                        *)

\* Threads the pool may have.
MaxThreads == 2

\* Samples per pixel of the driver (RAYS_PER_PX).
RAYS_PER_PX == 2

Pixels == (0 .. (WIDTH - 1)) \X (0 .. (HEIGHT - 1))

\* A JobIndex with the rows not reversed.
JobIndexNoRev(i, j) == j * WIDTH + i

\* Position of pixel (i, j) in
\* (0..HEIGHT).into_par_iter().rev().flat_map(|j| (0..WIDTH)..map(|i| (i, j))).
JobIndex(i, j) == (HEIGHT - 1 - j) * WIDTH + i

\* color(&ray, &world, 0) for the ray through the image-plane point
\* (un / (WIDTH * Jitter), vn / (HEIGHT * Jitter)) of a scene whose radiance
\* tells the pixels apart: constant over a pixel, different between pixels.
Shade(un, vn) ==
    <<CFrac((un \div Jitter) + 1, WIDTH), CFrac((vn \div Jitter) + 1, HEIGHT),
      CFrac(1, 4)>>

\* A Times255_99 with the factor 255.999 instead of 255.99.
Times255_999(c) == IF c = NaN THEN NaN ELSE Scale255(c, 999, 1000)

\* `255.99 * col.r()`, rounded down to a whole number; NaN stays NaN.
Times255_99(c) == IF c = NaN THEN NaN ELSE Scale255(c, 99, 100)

\* fn clamp(x: f32) -> u8: `if x > 255. { 255. } else { x }` and then
\* `as u8`.  NaN > 255. is false, and NaN as u8 is 0 where the cast
\* saturates and unspecified where it does not: any byte.
clamp(x) ==
    IF x = NaN THEN 0 .. 255
    ELSE IF x > 255 THEN {255}
    ELSE IF x < 0 THEN {0}
    ELSE {x}

\* The end of the closure: col /= RAYS_PER_PX, col = col.sqrt().
Averaged(col) == VSqrt(VDivN(col, RAYS_PER_PX))

\* The bytes a pixel job may emit for the averaged, gamma-corrected colour
\* ch: clamp(255.99 * r), clamp(255.99 * g), clamp(255.99 * b).
PixelBytes(ch) ==
    {<<r, g, b>> : r \in clamp(Times255_99(ch[1])),
                   g \in clamp(Times255_99(ch[2])),
                   b \in clamp(Times255_99(ch[3]))}

RECURSIVE Flatten(_, _)
Flatten(f, k) == IF k = 0 THEN <<>> ELSE Flatten(f, k - 1) \o f[k - 1]

RenderInit ==
    /\ nthreads \in 1 .. MaxThreads
    /\ pending = Pixels
    /\ active = {}
    /\ pieces = [k \in 0 .. (WIDTH * HEIGHT - 1) |-> <<>>]
    /\ writes = [p \in Pixels |-> 0]
    /\ bytes = <<>>
    /\ IdleButRender

\* A thread of the pool takes a pixel job: `let mut col = Vec3::splat(0.)`.
RenderStart ==
    /\ Cardinality(active) < nthreads
    /\ \E p \in pending :
         /\ pending' = pending \ {p}
         /\ active' = active \cup {[job |-> p, col |-> splat(0), s |-> 0]}
    /\ UNCHANGED <<nthreads, pieces, writes, bytes>>
    /\ UNCHANGED notRender

\* One iteration of `for _s in 0..RAYS_PER_PX`: the jittered ray's radiance
\* is added to the job's own col.
RenderSample ==
    /\ \E a \in active :
         /\ a.s < RAYS_PER_PX
         /\ \E g1 \in 0 .. (Jitter - 1), g2 \in 0 .. (Jitter - 1) :
              LET un == a.job[1] * Jitter + g1
                  vn == a.job[2] * Jitter + g2
              IN  active' = (active \ {a}) \cup
                      {[a EXCEPT !.col = VAdd(a.col, Shade(un, vn)),
                                 !.s = a.s + 1]}
    /\ UNCHANGED <<nthreads, pending, pieces, writes, bytes>>
    /\ UNCHANGED notRender

\* The job ends: average, gamma, and the three bytes r, g, b yielded at the
\* pixel's position of the iterator.
RenderFinish ==
    /\ \E a \in active :
         /\ a.s = RAYS_PER_PX
         /\ \E b \in PixelBytes(Averaged(a.col)) :
              pieces' = [pieces EXCEPT ![JobIndex(a.job[1], a.job[2])] = @ \o b]
         /\ writes' = [writes EXCEPT ![a.job] = @ + 1]
         /\ active' = active \ {a}
    /\ UNCHANGED <<nthreads, pending, bytes>>
    /\ UNCHANGED notRender

\* collect::<Vec<_>>() returns once every job has ended.
RenderCollect ==
    /\ pending = {} /\ active = {}
    /\ bytes = <<>>
    /\ bytes' = Flatten(pieces, WIDTH * HEIGHT)
    /\ UNCHANGED <<nthreads, pending, active, pieces, writes>>
    /\ UNCHANGED notRender

RenderNext == RenderStart \/ RenderSample \/ RenderFinish \/ RenderCollect

SpecRender == RenderInit /\ [][RenderNext]_vars

-----------------------------------------------------------------------------
(* One pixel job of the driver (src/main.rs:532-550) on arbitrary          *)
(* radiance: what color() returns for the samples is any of SampleColors.  *)

\* Radiance values a sample may have: black; a value whose square root
\* tells 255.99 from 255.999; values above 1; a negative channel.
SampleColors ==
    { splat(0),
      <<CFrac(9923, 10000), CFrac(1, 4), CFrac(1, 1)>>,
      <<CFrac(4, 1), CFrac(1, 1), CFrac(1, 2)>>,
      <<0 - CFrac(1, 1), 0, CFrac(2, 1)>> }

PostInit ==
    /\ postCol = splat(0)
    /\ postN = 0
    /\ postChan = <<>>
    /\ postOut = <<>>
    /\ IdleButPost

\* `col += color(&ray, &world, 0)`
PostSample ==
    /\ postN < RAYS_PER_PX
    /\ \E v \in SampleColors : postCol' = VAdd(postCol, v)
    /\ postN' = postN + 1
    /\ UNCHANGED <<postChan, postOut>>
    /\ UNCHANGED notPost

\* `col /= RAYS_PER_PX; col = col.sqrt();` and the three clamped bytes.
PostFinish ==
    /\ postN = RAYS_PER_PX
    /\ postOut = <<>>
    /\ postChan' = Averaged(postCol)
    /\ postOut' \in PixelBytes(Averaged(postCol))
    /\ UNCHANGED <<postCol, postN>>
    /\ UNCHANGED notPost

PostNext == PostSample \/ PostFinish

SpecPost == PostInit /\ [][PostNext]_vars

-----------------------------------------------------------------------------
(* Claims about the render driver.                                         *)

\* The radiance of pixel p, times n: what n samples of p alone add up to.
OwnSum(p, n) ==
    LET v == Shade(p[1] * Jitter, p[2] * Jitter)
    IN  <<n * v[1], n * v[2], n * v[3]>>

\* C5: for every number of worker threads and every interleaving of the
\* pixel jobs, the collected buffer has WIDTH * HEIGHT * 3 bytes; pixel
\* (i, j) yields its bytes r, g, b exactly once, at the position
\* 3 * ((HEIGHT - 1 - j) * WIDTH + i) that (i, j) alone fixes; and the
\* accumulator of a job holds the samples of its own pixel only.
C5_WriteOncePerPixel ==
    /\ \A p \in Pixels : writes[p] <= 1
    /\ \A a \in active :
         /\ a.col = OwnSum(a.job, a.s)
         /\ a.job \notin pending
         /\ writes[a.job] = 0
         /\ \A b \in active : b.job = a.job => b = a
    /\ bytes # <<>> =>
         /\ Len(bytes) = WIDTH * HEIGHT * 3
         /\ \A p \in Pixels :
              /\ writes[p] = 1
              /\ LET at == 3 * ((HEIGHT - 1 - p[2]) * WIDTH + p[1])
                 IN  <<bytes[at + 1], bytes[at + 2], bytes[at + 3]>>
                       \in PixelBytes(Averaged(OwnSum(p, RAYS_PER_PX)))

\* C5 witness: the buffer is collected after several threads computed the
\* pixels, and two pixels of different rows and columns differ in it.
C5_Witness ==
    /\ nthreads >= 2
    /\ bytes # <<>>
    /\ bytes[1] # bytes[4]
    /\ bytes[2] # bytes[3 * WIDTH + 2]

\* C7 as stated: each channel of the averaged, square-rooted colour is
\* emitted as clamp(255.999 * channel, 0, 255), a byte in 0..255.  Refuted:
\* the code multiplies by 255.99.
C7_Clamp255_999 ==
    postOut # <<>> =>
        \A c \in 1 .. 3 :
            /\ postOut[c] \in 0 .. 255
            /\ postChan[c] # NaN =>
                 LET x == Scale255(postChan[c], 999, 1000)
                 IN  postOut[c] = IF x > 255 THEN 255 ELSE x

\* C7 as amended: the accumulated colour is divided by the sample count,
\* its per-channel square root taken, and each channel emitted as
\* clamp(255.99 * channel, 0, 255) cut to a whole number; every emitted
\* byte is in 0..255, also for channels above 1 and for negative channels
\* (whose square root is NaN).
C7_Clamp255_99 ==
    postOut # <<>> =>
        \A c \in 1 .. 3 :
            LET mean == postCol[c] \div RAYS_PER_PX
                ch   == postChan[c]
                x    == (25599 * ch) \div (100 * ColorScale)
            IN  /\ postOut[c] \in 0 .. 255
                /\ mean < 0 <=> ch = NaN
                /\ mean >= 0 =>
                     /\ ch * ch <= mean * ColorScale
                     /\ (ch + 1) * (ch + 1) > mean * ColorScale
                     /\ postOut[c] = IF x > 255 THEN 255 ELSE x

\* C7 witness: a pixel with a negative channel (NaN after the square root)
\* and a channel above 1, emitted as 255.
C7_Witness ==
    /\ postOut # <<>>
    /\ \E c \in 1 .. 3 : postCol[c] < 0 /\ postChan[c] = NaN
    /\ \E c \in 1 .. 3 : postChan[c] > ColorScale /\ postOut[c] = 255

-----------------------------------------------------------------------------
(* Geometry in fixed point.                                                *)

\* Grid of a geometric quantity (a coordinate, a time, a ray parameter):
\* 1.0 is GeomScale.
GeomScale == 10

\* The whole number n on the grid.
G(n) == n * GeomScale

\* The vector of whole numbers v on the grid.
GVec(v) == <<G(v[1]), G(v[2]), G(v[3])>>

\* f32 product
GMul(x, y) == (x * y) \div GeomScale

\* f32 quotient, y > 0
GDiv(x, y) == (x * GeomScale) \div y

\* f32::sqrt of x >= 0
GSqrt(x) == ISqrt(x * GeomScale)

\* impl Sub for Vec3
VSub(a, b) == <<a[1] - b[1], a[2] - b[2], a[3] - b[3]>>

\* impl Mul<Vec3> for f32
GScaleVec(k, a) == <<GMul(k, a[1]), GMul(k, a[2]), GMul(k, a[3])>>

\* impl Div<f32> for Vec3
GDivVec(a, k) == <<GDiv(a[1], k), GDiv(a[2], k), GDiv(a[3], k)>>

\* Vec3::dot
dot(a, b) == GMul(a[1], b[1]) + GMul(a[2], b[2]) + GMul(a[3], b[3])

Min2(x, y) == IF x <= y THEN x ELSE y

Max2(x, y) == IF x >= y THEN x ELSE y

\* AABB::surrounding_box: the tightest box containing both.
surrounding_box(b0, b1) ==
    [min |-> <<Min2(b0.min[1], b1.min[1]), Min2(b0.min[2], b1.min[2]),
               Min2(b0.min[3], b1.min[3])>>,
     max |-> <<Max2(b0.max[1], b1.max[1]), Max2(b0.max[2], b1.max[2]),
               Max2(b0.max[3], b1.max[3])>>]

\* The point q is inside the box b (boundary included).
InBox(q, b) == \A i \in 1 .. 3 : b.min[i] <= q[i] /\ q[i] <= b.max[i]

-----------------------------------------------------------------------------
(* MovingSphere, trt-core/src/hit/moving_sphere.rs.                        *)

\* Largest radius of a sphere.
MaxRadius == 2

\* Latest time, of the sphere's motion and of a box interval.
MaxTime == 2

\* MovingSphere::center
center(s, time) ==
    VAdd(s.center0,
         GScaleVec(GDiv(time - s.time0, s.time1 - s.time0),
                   VSub(s.center1, s.center0)))

\* Ray::point_at_parameter
point_at_parameter(ray, t) == VAdd(ray.origin, GScaleVec(t, ray.direction))

\* The coefficients of the quadratic of MovingSphere::hit.
Quadratic(s, ray) ==
    LET oc == VSub(ray.origin, center(s, ray.time))
        a  == dot(ray.direction, ray.direction)
        b  == dot(oc, ray.direction)
        c  == dot(oc, oc) - GMul(s.radius, s.radius)
    IN  [a |-> a, b |-> b, c |-> c, discriminant |-> GMul(b, b) - GMul(a, c)]

\* The array the loop of hit runs over, far root first.
solutionsFarFirst(q) ==
    LET disc_sqrt == GSqrt(q.discriminant)
    IN  <<GDiv(-q.b + disc_sqrt, q.a), GDiv(-q.b - disc_sqrt, q.a)>>

\* The array the loop of hit runs over:
\* [(-b - disc_sqrt) / a, (-b + disc_sqrt) / a].
solutions(q) ==
    LET disc_sqrt == GSqrt(q.discriminant)
    IN  <<GDiv(-q.b - disc_sqrt, q.a), GDiv(-q.b + disc_sqrt, q.a)>>

NoHit == [some |-> FALSE]

\* The HitRecord hit builds for the parameter solution.
Record(s, ray, solution) ==
    LET p == point_at_parameter(ray, solution)
    IN  [some |-> TRUE, t |-> solution, p |-> p,
         normal |-> GDivVec(VSub(p, center(s, ray.time)), s.radius),
         u |-> 0, v |-> 0]

\* The loop of hit over the array sols, from its element k on: the first
\* solution strictly inside (t_min, t_max) is returned.
RECURSIVE FirstInside(_, _, _, _, _, _)
FirstInside(s, ray, sols, k, t_min, t_max) ==
    IF k > Len(sols) THEN NoHit
    ELSE IF sols[k] < t_max /\ sols[k] > t_min
         THEN Record(s, ray, sols[k])
         ELSE FirstInside(s, ray, sols, k + 1, t_min, t_max)

\* MovingSphere::hit
hit(s, ray, t_min, t_max) ==
    LET q == Quadratic(s, ray)
    IN  IF q.discriminant > 0
        THEN FirstInside(s, ray, solutions(q), 1, t_min, t_max)
        ELSE NoHit

\* box0 of bounding_box: half-width radius about center(t0).
box0(s, t0, t1) ==
    [min |-> VSub(center(s, t0), splat(s.radius)),
     max |-> VAdd(center(s, t0), splat(s.radius))]

\* A box1 about center(t0), as for a sphere at rest.
box1AtT0(s, t0, t1) ==
    [min |-> VSub(center(s, t0), splat(s.radius)),
     max |-> VAdd(center(s, t0), splat(s.radius))]

\* box1 of bounding_box: half-width radius about center(t1).
box1(s, t0, t1) ==
    [min |-> VSub(center(s, t1), splat(s.radius)),
     max |-> VAdd(center(s, t1), splat(s.radius))]

\* MovingSphere::bounding_box
bounding_box(s, t0, t1) == surrounding_box(box0(s, t0, t1), box1(s, t0, t1))

\* Where a sphere ends its motion, relative to where it starts.
Moves == {<<0, 0, 0>>, <<0, 2, 0>>, <<2, 0, -2>>, <<-1, 1, 3>>}

\* The spheres: at the origin at time 0, elsewhere at time1 > time0.
Spheres ==
    {[center0 |-> GVec(<<0, 0, 0>>), center1 |-> GVec(m),
      time0 |-> 0, time1 |-> G(t), radius |-> G(r)] :
        m \in Moves, t \in 1 .. MaxTime, r \in 1 .. MaxRadius}

\* The rays: the direction is never zero.
SphereRays ==
    {[origin |-> GVec(o), direction |-> GVec(d), time |-> G(t)] :
        o \in {<<0, 0, -3>>, <<0, 0, 0>>, <<0, 2, -3>>},
        d \in {<<0, 0, 1>>, <<0, 1, 1>>},
        t \in 0 .. 1}

\* The bounds (t_min, t_max), in halves.
Ranges ==
    {<<G(lo) \div 2, G(hi) \div 2>> : lo \in {0, 4, 6}, hi \in {4, 10}}

\* The times bounding_box is asked about.
BoxTimes == {G(t) : t \in 0 .. MaxTime}

SphereInit ==
    /\ msphere \in Spheres
    /\ mray \in SphereRays
    /\ mrange \in Ranges
    /\ mhit = <<>>
    /\ mbox = <<>>
    /\ IdleButSphere

\* A call of hit.
SphereHit ==
    /\ mhit = <<>>
    /\ mhit' = hit(msphere, mray, mrange[1], mrange[2])
    /\ UNCHANGED <<msphere, mray, mrange, mbox>>
    /\ UNCHANGED notSphere

\* A call of bounding_box.
SphereBoundingBox ==
    /\ mbox = <<>>
    /\ \E t0 \in BoxTimes, t1 \in BoxTimes :
          mbox' = [t0 |-> t0, t1 |-> t1, box |-> bounding_box(msphere, t0, t1)]
    /\ UNCHANGED <<msphere, mray, mrange, mhit>>
    /\ UNCHANGED notSphere

SphereNext == SphereHit \/ SphereBoundingBox

SpecSphere == SphereInit /\ [][SphereNext]_vars

-----------------------------------------------------------------------------
(* Claims about MovingSphere.                                              *)

\* The roots of the ray/sphere quadratic of the call in progress that lie
\* strictly inside (t_min, t_max); none when the discriminant is not
\* positive.
RootsInside ==
    LET q == Quadratic(msphere, mray)
        r == GSqrt(q.discriminant)
    IN  IF q.discriminant > 0
        THEN {t \in {GDiv(-q.b - r, q.a), GDiv(-q.b + r, q.a)} :
                 mrange[1] < t /\ t < mrange[2]}
        ELSE {}

\* The near and the far root of the call in progress (discriminant > 0).
NearRoot ==
    LET q == Quadratic(msphere, mray)
    IN  GDiv(-q.b - GSqrt(q.discriminant), q.a)

FarRoot ==
    LET q == Quadratic(msphere, mray)
    IN  GDiv(-q.b + GSqrt(q.discriminant), q.a)

\* C8: MovingSphere.hit returns the near root when it lies strictly inside
\* (t_min, t_max), otherwise the far root when that one does, otherwise no
\* hit; so the t returned is the smallest root inside the open interval, and
\* there is no hit when the discriminant is not positive.
C8_SmallestRootInside ==
    mhit # <<>> =>
        /\ mhit.some <=> RootsInside # {}
        /\ mhit.some =>
              /\ mhit.t \in RootsInside
              /\ \A t \in RootsInside : mhit.t <= t
              /\ mhit.t = IF NearRoot \in RootsInside THEN NearRoot ELSE FarRoot
        /\ Quadratic(msphere, mray).discriminant <= 0 => ~mhit.some

\* hit returned the far root: both roots are real and distinct, the near one
\* is not inside the interval and the far one is.
C8_Witness ==
    /\ mhit # <<>>
    /\ mhit.some
    /\ Quadratic(msphere, mray).discriminant > 0
    /\ NearRoot < FarRoot
    /\ NearRoot \notin RootsInside
    /\ mhit.t = FarRoot

\* C9: MovingSphere.bounding_box(t0, t1) is the surrounding box of the boxes
\* of half-width radius about center(t0) and center(t1), center being the
\* linear interpolation from center0 at time0 to center1 at time1; so for
\* every t with t0 <= t <= t1 the sphere centered at center(t) is inside it.
C9_BoxCoversMotion ==
    mbox # <<>> =>
        LET c0 == center(msphere, mbox.t0)
            c1 == center(msphere, mbox.t1)
            r  == msphere.radius
        IN  /\ center(msphere, msphere.time0) = msphere.center0
            /\ center(msphere, msphere.time1) = msphere.center1
            /\ \A i \in 1 .. 3 :
                  /\ mbox.box.min[i] = Min2(c0[i], c1[i]) - r
                  /\ mbox.box.max[i] = Max2(c0[i], c1[i]) + r
            /\ \A t \in 0 .. G(MaxTime) :
                  (mbox.t0 <= t /\ t <= mbox.t1) =>
                      /\ InBox(VSub(center(msphere, t), splat(r)), mbox.box)
                      /\ InBox(VAdd(center(msphere, t), splat(r)), mbox.box)

\* bounding_box was asked about an interval over which the sphere moves, and
\* the box is larger than the box at either end.
C9_Witness ==
    /\ mbox # <<>>
    /\ mbox.t0 < mbox.t1
    /\ center(msphere, mbox.t0) # center(msphere, mbox.t1)
    /\ mbox.box # box0(msphere, mbox.t0, mbox.t1)
    /\ mbox.box # box1(msphere, mbox.t0, mbox.t1)

-----------------------------------------------------------------------------
(* RotateX, RotateY and RotateZ, trt-core/src/hit/rotate.rs.               *)
(*                                                                         *)
(* The three combinators differ in the axis their hit rotates about; all   *)
(* three build their box at construction with the one compute_bbox.  The   *)
(* child is any Hit: it answers a ray with a point of its own box, or with *)
(* nothing.                                                                *)

\* Largest edge of a child's box.
MaxExtent == 2

Axes == {"X", "Y", "Z"}

\* The angles, by the exact cosine and sine: 0, 90, 180 and 270 degrees,
\* and two angles of a 3-4-5 triangle.
Angles ==
    { [cos |-> <<1, 1>>,  sin |-> <<0, 1>>],
      [cos |-> <<0, 1>>,  sin |-> <<1, 1>>],
      [cos |-> <<-1, 1>>, sin |-> <<0, 1>>],
      [cos |-> <<0, 1>>,  sin |-> <<-1, 1>>],
      [cos |-> <<3, 5>>,  sin |-> <<4, 5>>],
      [cos |-> <<-4, 5>>, sin |-> <<3, 5>>] }

\* radians.sin() and radians.cos(), rounded to the grid.
sin_theta(angle) == (angle.sin[1] * GeomScale) \div angle.sin[2]

cos_theta(angle) == (angle.cos[1] * GeomScale) \div angle.cos[2]

\* The child has no bounding box.
NoBox == [none |-> TRUE]

\* The boxes a child can have.
ChildBoxes ==
    {[min |-> GVec(m), max |-> VAdd(GVec(m), GVec(<<ex, ey, ez>>))] :
        m \in {<<0, 0, 0>>, <<-1, -2, 1>>},
        ex \in 1 .. MaxExtent, ey \in 1 .. MaxExtent, ez \in 1 .. MaxExtent}

\* The 8 corners of a box.
Corners(b) ==
    {<<x, y, z>> : x \in {b.min[1], b.max[1]}, y \in {b.min[2], b.max[2]},
                   z \in {b.min[3], b.max[3]}}

SetMin(S) == CHOOSE x \in S : \A y \in S : x <= y

SetMax(S) == CHOOSE x \in S : \A y \in S : x >= y

\* The corner (x, y, z) as compute_bbox transforms it.
tester(q, c, sn) ==
    <<GMul(c, q[1]) + GMul(sn, q[3]), q[2], GMul(-sn, q[1]) + GMul(c, q[3])>>

\* compute_bbox: the enclosing box of the transformed corners of bbox.
compute_bbox(bbox, c, sn) ==
    LET T == {tester(q, c, sn) : q \in Corners(bbox)}
    IN  [min |-> <<SetMin({t[1] : t \in T}), SetMin({t[2] : t \in T}),
                   SetMin({t[3] : t \in T})>>,
         max |-> <<SetMax({t[1] : t \in T}), SetMax({t[2] : t \in T}),
                   SetMax({t[3] : t \in T})>>]

\* The rotation hit applies to the origin and the direction of the ray.
ToLocal(axis, q, c, sn) ==
    CASE axis = "Y" ->
           <<GMul(c, q[1]) - GMul(sn, q[3]), q[2],
             GMul(sn, q[1]) + GMul(c, q[3])>>
      [] axis = "X" ->
           <<q[1], GMul(c, q[2]) + GMul(sn, q[3]),
             GMul(-sn, q[2]) + GMul(c, q[3])>>
      [] axis = "Z" ->
           <<GMul(c, q[1]) + GMul(sn, q[2]),
             GMul(-sn, q[1]) + GMul(c, q[2]), q[3]>>

\* The point and the normal rotated the way the ray is.
ToWorldSameSense(axis, q, c, sn) == ToLocal(axis, q, c, sn)

\* The rotation hit applies to the point and the normal of the child's record.
ToWorld(axis, q, c, sn) ==
    CASE axis = "Y" ->
           <<GMul(c, q[1]) + GMul(sn, q[3]), q[2],
             GMul(-sn, q[1]) + GMul(c, q[3])>>
      [] axis = "X" ->
           <<q[1], GMul(c, q[2]) - GMul(sn, q[3]),
             GMul(sn, q[2]) + GMul(c, q[3])>>
      [] axis = "Z" ->
           <<GMul(c, q[1]) - GMul(sn, q[2]),
             GMul(sn, q[1]) + GMul(c, q[2]), q[3]>>

\* The rays handed to hit.
RotateRays ==
    {[origin |-> GVec(<<0, 0, -3>>), direction |-> GVec(<<0, 0, 1>>),
      time |-> 0],
     [origin |-> GVec(<<2, 1, 0>>), direction |-> GVec(<<-1, 0, 1>>),
      time |-> G(1)]}

\* The bounds (t_min, t_max) handed to hit.
RotateRanges == {<<0, G(5)>>, <<G(1), G(3)>>}

\* The points a child can answer with: the corners and the middle of its box.
ChildPoints(b) ==
    Corners(b)
      \cup {<<(b.min[1] + b.max[1]) \div 2, (b.min[2] + b.max[2]) \div 2,
              (b.min[3] + b.max[3]) \div 2>>}

\* The records the child can answer the ray r with: a point of its box with
\* the normal +z, or the origin of r with the direction of r as the normal;
\* t, u, v and the material are the child's own.
ChildRecords(b, r, t_min, t_max) ==
    {[some |-> TRUE, t |-> t_max - 1, p |-> q, normal |-> GVec(<<0, 0, 1>>),
      u |-> 3, v |-> 7, mat |-> "child.material"] : q \in ChildPoints(b)}
      \cup {[some |-> TRUE, t |-> t_min + 1, p |-> r.origin,
             normal |-> r.direction, u |-> 3, v |-> 7,
             mat |-> "child.material"]}

\* A rotated ray that starts at time 0.
rotated_time_zero(ray) == 0

\* time of rotated_ray: `time: ray.time`.
rotated_time(ray) == ray.time

\* rotated_ray of hit.
rotated_ray(axis, ray, c, sn) ==
    [origin |-> ToLocal(axis, ray.origin, c, sn),
     direction |-> ToLocal(axis, ray.direction, c, sn),
     time |-> rotated_time(ray)]

RotateInit ==
    /\ rotArgs \in [axis : Axes, angle : Angles, child : ChildBoxes \cup {NoBox}]
    /\ rot = <<>>
    /\ rotRec = <<>>
    /\ IdleButRotate

\* RotateX::new, RotateY::new, RotateZ::new
RotateNew ==
    /\ rot = <<>>
    /\ LET sn == sin_theta(rotArgs.angle)
           c  == cos_theta(rotArgs.angle)
       IN  rot' = [sin_theta |-> sn, cos_theta |-> c,
                   bbox |-> IF rotArgs.child = NoBox THEN NoBox
                            ELSE compute_bbox(rotArgs.child, c, sn)]
    /\ UNCHANGED <<rotArgs, rotRec>>
    /\ UNCHANGED notRotate

\* hit, the child finding nothing: `?` returns None.
RotateMiss ==
    /\ rot # <<>>
    /\ rotRec = <<>>
    /\ \E ray \in RotateRays, range \in RotateRanges :
          LET rr == rotated_ray(rotArgs.axis, ray,
                                rot.cos_theta, rot.sin_theta)
          IN  rotRec' = [in |-> [ray |-> ray, t_min |-> range[1],
                                 t_max |-> range[2]],
                         ray |-> rr,
                         calls |-> <<[ray |-> rr, t_min |-> range[1],
                                      t_max |-> range[2]]>>,
                         child |-> NoHit,
                         some |-> FALSE]
    /\ UNCHANGED <<rotArgs, rot>>
    /\ UNCHANGED notRotate

\* hit, the child answering with a record: p and normal are rotated, the
\* rest of the record is kept.
RotateHit ==
    /\ rot # <<>>
    /\ rotRec = <<>>
    /\ rotArgs.child # NoBox
    /\ \E ray \in RotateRays, range \in RotateRanges :
          LET rr == rotated_ray(rotArgs.axis, ray,
                                rot.cos_theta, rot.sin_theta)
          IN  \E rec \in ChildRecords(rotArgs.child, rr, range[1], range[2]) :
                 rotRec' = [in |-> [ray |-> ray, t_min |-> range[1],
                                    t_max |-> range[2]],
                            ray |-> rr,
                            calls |-> <<[ray |-> rr, t_min |-> range[1],
                                         t_max |-> range[2]]>>,
                            child |-> rec,
                            some |-> TRUE,
                            t |-> rec.t, u |-> rec.u, v |-> rec.v,
                            mat |-> rec.mat,
                            p |-> ToWorld(rotArgs.axis, rec.p,
                                          rot.cos_theta, rot.sin_theta),
                            normal |-> ToWorld(rotArgs.axis, rec.normal,
                                               rot.cos_theta, rot.sin_theta)]
    /\ UNCHANGED <<rotArgs, rot>>
    /\ UNCHANGED notRotate

RotateNext == RotateNew \/ RotateMiss \/ RotateHit

SpecRotate == RotateInit /\ [][RotateNext]_vars

-----------------------------------------------------------------------------
(* Claims about the rotations.                                             *)

\* The box stored at construction contains the corners of the child's box
\* as hit rotates them, and the point hit returned for a child point inside
\* the child's box.
BBoxCovers ==
    /\ (rot # <<>> /\ rot.bbox # NoBox) =>
          \A q \in Corners(rotArgs.child) :
              InBox(ToWorld(rotArgs.axis, q, rot.cos_theta, rot.sin_theta),
                    rot.bbox)
    /\ (rotRec # <<>> /\ rotRec.some
          /\ InBox(rotRec.child.p, rotArgs.child)) =>
          InBox(rotRec.p, rot.bbox)

\* C10: for each of RotateX, RotateY and RotateZ and every angle, the box
\* stored at construction contains the 8 corners of the child's box as that
\* combinator's hit rotates hit points, and so every point hit returns for a
\* child point inside the child's box.
C10_BBoxContainsRotatedCorners == BBoxCovers

\* The same for RotateY alone, whose hit rotates as compute_bbox does.
RotateY_BBoxCovers == rotArgs.axis = "Y" => BBoxCovers

\* The grid values of cos_theta and sin_theta are those of an angle:
\* sin^2 + cos^2 = 1 with no rounding.
UnitTrig == rot.cos_theta * rot.cos_theta + rot.sin_theta * rot.sin_theta
                = GeomScale * GeomScale

\* The vectors a and b differ by at most one grid step on every axis.
Near(a, b) == \A i \in 1 .. 3 : a[i] - b[i] \in {-1, 0, 1}

\* The rotation axis as an index.
AxisIndex == CASE rotArgs.axis = "X" -> 1 [] rotArgs.axis = "Y" -> 2
               [] rotArgs.axis = "Z" -> 3

\* The angle is a multiple of 90 degrees: the products are exact.
RightAngle == rot.cos_theta = 0 \/ rot.sin_theta = 0

\* C11: for each of RotateX, RotateY and RotateZ the rotation hit applies to
\* the ray's origin and direction and the one it applies to the returned
\* point and normal are inverses about the same axis: the ray's origin and
\* direction, rotated into the child's frame and handed back by the child
\* as point and normal, return as the original origin and direction (given
\* sin^2 + cos^2 = 1; exactly at right angles, to the rounding of the
\* products otherwise), and the component along the axis is unchanged by
\* both rotations.
C11_RotationsAreInverse ==
    (rotRec # <<>> /\ rotRec.some) =>
        /\ rotRec.ray.origin[AxisIndex] = rotRec.in.ray.origin[AxisIndex]
        /\ rotRec.ray.direction[AxisIndex]
             = rotRec.in.ray.direction[AxisIndex]
        /\ rotRec.p[AxisIndex] = rotRec.child.p[AxisIndex]
        /\ rotRec.normal[AxisIndex] = rotRec.child.normal[AxisIndex]
        /\ (UnitTrig /\ rotRec.child.p = rotRec.ray.origin
               /\ rotRec.child.normal = rotRec.ray.direction) =>
              /\ Near(rotRec.p, rotRec.in.ray.origin)
              /\ Near(rotRec.normal, rotRec.in.ray.direction)
              /\ RightAngle =>
                    /\ rotRec.p = rotRec.in.ray.origin
                    /\ rotRec.normal = rotRec.in.ray.direction

\* A ray rotated by a quarter turn came back from the child as point and
\* normal and was returned as it came in.
C11_Witness ==
    /\ rotRec # <<>>
    /\ rotRec.some
    /\ rot.sin_theta = GeomScale
    /\ rotRec.child.p = rotRec.ray.origin
    /\ rotRec.child.normal = rotRec.ray.direction
    /\ rotRec.ray.origin # rotRec.in.ray.origin
    /\ rotRec.p = rotRec.in.ray.origin
    /\ rotRec.normal = rotRec.in.ray.direction

\* C19: hit of RotateX, RotateY and RotateZ delegates exactly once to the
\* child, with the rotated ray, the same t_min and t_max and the same ray
\* time; it returns no hit exactly when the child returns none, and on a hit
\* the child's t, u, v and material are returned unchanged.
C19_DelegatesOnce ==
    rotRec # <<>> =>
        /\ Len(rotRec.calls) = 1
        /\ rotRec.calls[1].ray = rotRec.ray
        /\ rotRec.calls[1].t_min = rotRec.in.t_min
        /\ rotRec.calls[1].t_max = rotRec.in.t_max
        /\ rotRec.calls[1].ray.time = rotRec.in.ray.time
        /\ rotRec.some <=> rotRec.child.some
        /\ rotRec.some =>
              /\ rotRec.t = rotRec.child.t
              /\ rotRec.u = rotRec.child.u
              /\ rotRec.v = rotRec.child.v
              /\ rotRec.mat = rotRec.child.mat

\* hit returned a record for a ray of time 1 at an angle that moves the
\* point: p differs from the child's, t, u, v and the material do not.
C19_Witness ==
    /\ rotRec # <<>>
    /\ rotRec.some
    /\ rotRec.in.ray.time = G(1)
    /\ rotRec.p # rotRec.child.p
    /\ rotRec.t = rotRec.child.t
    /\ rotRec.mat = "child.material"

-----------------------------------------------------------------------------
(* The materials: Metal (trt-core/src/material/metal.rs), Lambertian        *)
(* (src/material/lambertian.rs) and Isotropic (src/material/isotropic.rs), *)
(* with reflect and random_in_unit_sphere (src/main.rs).                   *)

\* random() is one of 0/RandSteps .. (RandSteps-1)/RandSteps.
RandSteps == 4

MaterialKinds == {"metal", "lambertian", "isotropic"}

\* The fuzz values a Metal is asked for: -1/2, 0, 1/2, 1 and 10.
FuzzRequests == {-(GeomScale \div 2), 0, GeomScale \div 2, G(1), G(10)}

\* Vec3::unit (the length is not 0)
unit(v) == GDivVec(v, GSqrt(dot(v, v)))

\* reflect(v, n) = v - 2. * Vec3::dot(v, n) * n
reflect(v, n) == VSub(v, GScaleVec(2 * dot(v, n), n))

\* The candidates of random_in_unit_sphere: 2.0 * Vec3::random() - 1.
Candidates ==
    {<<(2 * i * GeomScale) \div RandSteps - GeomScale,
       (2 * j * GeomScale) \div RandSteps - GeomScale,
       (2 * k * GeomScale) \div RandSteps - GeomScale>> :
        i \in 0 .. (RandSteps - 1), j \in 0 .. (RandSteps - 1),
        k \in 0 .. (RandSteps - 1)}

\* What random_in_unit_sphere can return: the loop ends with the first
\* candidate p with dot(p, p) < 1.0.
random_in_unit_sphere == {q \in Candidates : dot(q, q) < G(1)}

\* The fuzz Metal::new stores: fuzz.min(1.)
MetalFuzz(fuzz) == Min2(fuzz, G(1))

\* A scatter that accepts a direction perpendicular to the normal.
AcceptsOrZero(d) == d >= 0

\* The test of Metal::scatter: dot(scattered.direction, rec.normal) > 0.
Accepts(d) == d > 0

\* Metal::scatter, random_in_unit_sphere having returned q.
MetalScatter(m, r_in, rec, q) ==
    LET reflected == reflect(unit(r_in.direction), rec.normal)
        ray == [origin |-> rec.p,
                direction |-> VAdd(reflected, GScaleVec(m.fuzz, q)),
                time |-> 0]
    IN  IF Accepts(dot(ray.direction, rec.normal))
        THEN [some |-> TRUE, ray |-> ray, attenuation |-> m.albedo, drawn |-> q]
        ELSE [some |-> FALSE, drawn |-> q]

\* Lambertian::scatter, random_in_unit_sphere having returned q.
LambertianScatter(m, r_in, rec, q) ==
    LET target == VAdd(VAdd(rec.p, rec.normal), q)
    IN  [some |-> TRUE,
         ray |-> [origin |-> rec.p, direction |-> VSub(target, rec.p),
                  time |-> r_in.time],
         attenuation |-> m.albedo, drawn |-> q]

\* Isotropic::scatter, random_in_unit_sphere having returned q.
IsotropicScatter(m, r_in, rec, q) ==
    [some |-> TRUE,
     ray |-> [origin |-> rec.p, direction |-> q, time |-> r_in.time],
     attenuation |-> m.albedo, drawn |-> q]

\* The rays that reach a surface: straight down, slanted, grazing, and up
\* from behind; at the start and in the middle of the shutter interval.
MaterialRays ==
    {[origin |-> GVec(<<0, 0, 5>>), direction |-> GVec(d), time |-> t] :
        d \in {<<0, 0, -2>>, <<3, 0, -4>>, <<2, 0, 0>>, <<0, 0, 1>>},
        t \in {0, GeomScale \div 2}}

\* The hit records: a point with a unit normal.
MaterialRecs ==
    {[p |-> GVec(<<1, 2, 0>>), normal |-> GVec(n), u |-> 0, v |-> 0] :
        n \in {<<0, 0, 1>>, <<0, 1, 0>>}}

MaterialInit ==
    /\ matArgs \in
         [kind : {"metal"}, albedo : {splat(CFrac(1, 2))}, fuzz : FuzzRequests]
           \cup [kind : {"lambertian", "isotropic"},
                 albedo : {splat(CFrac(1, 2))}, fuzz : {0}]
    /\ material = <<>>
    /\ matCall \in [r_in : MaterialRays, rec : MaterialRecs]
    /\ scattered = <<>>
    /\ IdleButMaterial

\* Metal::new, Lambertian::new, Isotropic { albedo }
MaterialNew ==
    /\ material = <<>>
    /\ material' = [kind |-> matArgs.kind, albedo |-> matArgs.albedo,
                    fuzz |-> IF matArgs.kind = "metal"
                             THEN MetalFuzz(matArgs.fuzz) ELSE 0]
    /\ UNCHANGED <<matArgs, matCall, scattered>>
    /\ UNCHANGED notMaterial

\* A call of scatter.
MaterialScatter ==
    /\ material # <<>>
    /\ scattered = <<>>
    /\ \E q \in random_in_unit_sphere :
          scattered' =
             CASE material.kind = "metal" ->
                    MetalScatter(material, matCall.r_in, matCall.rec, q)
               [] material.kind = "lambertian" ->
                    LambertianScatter(material, matCall.r_in, matCall.rec, q)
               [] material.kind = "isotropic" ->
                    IsotropicScatter(material, matCall.r_in, matCall.rec, q)
    /\ UNCHANGED <<matArgs, material, matCall>>
    /\ UNCHANGED notMaterial

MaterialNext == MaterialNew \/ MaterialScatter

SpecMaterial == MaterialInit /\ [][MaterialNext]_vars

-----------------------------------------------------------------------------
(* Claims about the materials.                                             *)

\* C12: the fuzz a Metal uses in scatter is within [0, 1] for every fuzz
\* requested at construction, above 1 and negative included.  Refuted by
\* the code: Metal::new clamps from above only.
C12_FuzzClamped ==
    (material # <<>> /\ material.kind = "metal") =>
        (0 <= material.fuzz /\ material.fuzz <= G(1))

\* The direction Metal::scatter tests, from the arguments of the call and
\* the point drawn: reflect(unit(r_in.direction), normal) + fuzz * drawn,
\* with reflect(v, n) = v - 2 * dot(v, n) * n.
MetalDirection ==
    LET v == unit(matCall.r_in.direction)
        n == matCall.rec.normal
        r == <<v[1] - GMul(2 * dot(v, n), n[1]),
               v[2] - GMul(2 * dot(v, n), n[2]),
               v[3] - GMul(2 * dot(v, n), n[3])>>
    IN  <<r[1] + GMul(material.fuzz, scattered.drawn[1]),
          r[2] + GMul(material.fuzz, scattered.drawn[2]),
          r[3] + GMul(material.fuzz, scattered.drawn[3])>>

\* C13: Metal.scatter returns no scatter exactly when the dot product of
\* the perturbed reflected direction and the normal is <= 0; otherwise it
\* returns the ray from the hit point along that direction, with the albedo
\* as attenuation.
C13_MetalAbsorbsBelowSurface ==
    (scattered # <<>> /\ material.kind = "metal") =>
        /\ ~scattered.some <=> dot(MetalDirection, matCall.rec.normal) <= 0
        /\ scattered.some =>
              /\ scattered.ray.direction = MetalDirection
              /\ scattered.ray.origin = matCall.rec.p
              /\ scattered.attenuation = material.albedo

\* A fuzzy Metal absorbed a grazing ray that its perturbation pushed below
\* the surface.
C13_Witness ==
    /\ scattered # <<>>
    /\ material.kind = "metal"
    /\ material.fuzz > 0
    /\ ~scattered.some
    /\ dot(reflect(unit(matCall.r_in.direction), matCall.rec.normal),
           matCall.rec.normal) = 0
    /\ dot(MetalDirection, matCall.rec.normal) < 0

\* C17: the scattered ray of every material carries the time of the
\* incoming ray.  Refuted by the code: Metal::scatter sets time: 0.
C17_ScatterKeepsTime ==
    (scattered # <<>> /\ scattered.some) =>
        scattered.ray.time = matCall.r_in.time

\* C18: every scattered ray has a direction that is not the zero vector.
\* Refuted by the code: random_in_unit_sphere can return the zero vector,
\* which Isotropic::scatter uses as the direction.
C18_DirectionNotZero ==
    (scattered # <<>> /\ scattered.some) =>
        scattered.ray.direction # <<0, 0, 0>>

-----------------------------------------------------------------------------
(* refract and schlick, src/main.rs:70-87.                                 *)

\* Grid of the quantities of refract and schlick: 1.0 is FineScale.
FineScale == 1000

\* The whole number n on the fine grid.
F(n) == n * FineScale

\* n / d on the fine grid.
FFrac(n, d) == (n * FineScale) \div d

\* f32 product
FMul(x, y) == (x * y) \div FineScale

\* f32 quotient, y > 0
FDiv(x, y) == (x * FineScale) \div y

\* f32::sqrt of x >= 0
FSqrt(x) == ISqrt(x * FineScale)

\* Vec3::dot
FDot(a, b) == FMul(a[1], b[1]) + FMul(a[2], b[2]) + FMul(a[3], b[3])

\* Vec3::unit
FUnit(v) ==
    LET len == FSqrt(FDot(v, v))
    IN  <<FDiv(v[1], len), FDiv(v[2], len), FDiv(v[3], len)>>

\* f32 * Vec3
FScaleVec(k, a) == <<FMul(k, a[1]), FMul(k, a[2]), FMul(k, a[3])>>

\* discriminant of refract: 1.0 - ni_over_nt * ni_over_nt * (1. - dt * dt)
discriminant(dt, ni_over_nt) ==
    F(1) - FMul(FMul(ni_over_nt, ni_over_nt), F(1) - FMul(dt, dt))

\* A test that refracts unless the discriminant is exactly 0.
RefractsUnlessZero(d) == d # 0

\* The test of refract: `if discriminant > 0.`
Refracts(d) == d > 0

\* refract(v, n, ni_over_nt)
refract(v, n, ni_over_nt) ==
    LET uv == FUnit(v)
        dt == FDot(uv, n)
        d  == discriminant(dt, ni_over_nt)
    IN  IF Refracts(d)
        THEN [some |-> TRUE,
              refracted |-> VSub(FScaleVec(ni_over_nt,
                                           VSub(uv, FScaleVec(dt, n))),
                                 FScaleVec(FSqrt(d), n))]
        ELSE [some |-> FALSE]

\* x.powi(5), by squaring
powi5(x) == LET x2 == FMul(x, x) IN FMul(FMul(x2, x2), x)

\* A schlick that raises the cosine itself to the fifth power.
InsteadCosine(cosine) == cosine

\* (1. - cosine) of schlick
OneMinus(cosine) == F(1) - cosine

\* r0 of schlick: ((1. - ref_idx) / (1. + ref_idx)) squared
R0(ref_idx) ==
    LET r == FDiv(F(1) - ref_idx, F(1) + ref_idx) IN FMul(r, r)

\* schlick(cosine, ref_idx)
schlick(cosine, ref_idx) ==
    R0(ref_idx) + FMul(F(1) - R0(ref_idx), powi5(OneMinus(cosine)))

\* Refractive indices and their ratios: 1/2, 2/3, 1, 3/2, 2, 3.
Indices ==
    {FFrac(1, 2), FFrac(2, 3), F(1), FFrac(3, 2), F(2), F(3)}

\* Incoming directions onto the normal (0, 0, 1): along the normal, against
\* it, and at the angles of the 3-4-5 and the 5-12-13 triangle.
Incoming ==
    {<<0, 0, F(-3)>>, <<0, 0, F(2)>>, <<F(3), 0, F(-4)>>, <<F(4), 0, F(-3)>>,
     <<F(12), 0, F(-5)>>}

\* The cosines schlick is asked about: 0, 1/8, .. 1.
Cosines == {FFrac(k, 8) : k \in 0 .. 8}

OpticsInit ==
    /\ optArgs \in [v : Incoming, n : {<<0, 0, F(1)>>}, ni_over_nt : Indices,
                    cosine : Cosines, ref_idx : Indices]
    /\ optOut = [refract |-> [pending |-> TRUE], schlick |-> [pending |-> TRUE]]
    /\ IdleButOptics

\* A call of refract.
OpticsRefract ==
    /\ optOut.refract = [pending |-> TRUE]
    /\ optOut' = [optOut EXCEPT
                    !.refract = refract(optArgs.v, optArgs.n,
                                        optArgs.ni_over_nt)]
    /\ UNCHANGED optArgs
    /\ UNCHANGED notOptics

\* A call of schlick.
OpticsSchlick ==
    /\ optOut.schlick = [pending |-> TRUE]
    /\ optOut' = [optOut EXCEPT
                    !.schlick = [val |-> schlick(optArgs.cosine,
                                                 optArgs.ref_idx)]]
    /\ UNCHANGED optArgs
    /\ UNCHANGED notOptics

OpticsNext == OpticsRefract \/ OpticsSchlick

SpecOptics == OpticsInit /\ [][OpticsNext]_vars

-----------------------------------------------------------------------------
(* Claims about refract and schlick.                                       *)

RefractDone == optOut # <<>> /\ optOut.refract # [pending |-> TRUE]

SchlickDone == optOut # <<>> /\ optOut.schlick # [pending |-> TRUE]

\* dot(unit(v), n) of the call of refract.
Dt == FDot(FUnit(optArgs.v), optArgs.n)

\* 1 - ni_over_nt^2 * (1 - dt^2) of the call of refract.
Disc ==
    LET r2 == (optArgs.ni_over_nt * optArgs.ni_over_nt) \div FineScale
        s2 == F(1) - ((Dt * Dt) \div FineScale)
    IN  F(1) - ((r2 * s2) \div FineScale)

\* C14: refract reports no refracted direction whenever the discriminant
\* 1 - ni_over_nt^2 * (1 - dot(unit(v), n)^2) is negative, and returns one
\* for every ratio at normal incidence (unit(v) parallel to n).
C14_RefractOrTotalReflection ==
    RefractDone =>
        /\ Disc < 0 => ~optOut.refract.some
        /\ (FUnit(optArgs.v) = optArgs.n
              \/ FUnit(optArgs.v) = FScaleVec(F(-1), optArgs.n)) =>
              optOut.refract.some

\* refract reported total internal reflection for a slanted ray leaving the
\* denser medium.
C14_Witness ==
    /\ RefractDone
    /\ optArgs.ni_over_nt > F(1)
    /\ Disc < 0
    /\ ~optOut.refract.some

\* C15: schlick(cosine, ref_idx) is 0 at cosine = 1 when ref_idx = 1; for
\* every ref_idx > 0 it does not decrease as the cosine decreases from 1 to
\* 0, is larger at cosine 0 than at cosine 1, and stays within [r0, 1] with
\* r0 = ((1 - ref_idx) / (1 + ref_idx))^2.
C15_SchlickMonotone ==
    SchlickDone =>
        LET val == optOut.schlick.val
            ri  == optArgs.ref_idx
            q   == ((F(1) - ri) * FineScale) \div (F(1) + ri)
            r0  == (q * q) \div FineScale
        IN  /\ (optArgs.cosine = F(1) /\ ri = F(1)) => val = 0
            /\ r0 <= val /\ val <= F(1)
            /\ optArgs.cosine = F(1) => val = r0
            /\ optArgs.cosine = 0 => val = F(1)
            /\ \A c \in Cosines :
                  /\ c <= optArgs.cosine => schlick(c, ri) >= val
                  /\ c >= optArgs.cosine => schlick(c, ri) <= val
            /\ schlick(0, ri) > schlick(F(1), ri)

\* schlick was asked about a slanted ray on glass: its value is strictly
\* between that at normal incidence and that at grazing incidence.
C15_Witness ==
    /\ SchlickDone
    /\ optArgs.ref_idx = FFrac(3, 2)
    /\ optArgs.cosine = FFrac(1, 2)
    /\ optOut.schlick.val > schlick(F(1), optArgs.ref_idx)
    /\ optOut.schlick.val < schlick(0, optArgs.ref_idx)

-----------------------------------------------------------------------------
(* eval_scene, trt-dsl/src/lib.rs:31-51.                                   *)
(*                                                                         *)
(* The interpreter is a library: a source is what the interpreter makes of *)
(* it at each stage.                                                       *)

\* Most objects a scene holds.
MaxObjects == 3

\* The stages of eval_scene, in the order of its statements.
Stages == <<"compile", "exec", "compile_call", "eval", "downcast", "take">>

\* The sources: whether the source compiles, whether its top level runs
\* without raising, what evaluating "scene()" gives (an exception, an
\* object that is not a scene, a scene), and the scene it describes.
Sources ==
    [compiles : BOOLEAN, runs : BOOLEAN,
     call : {"raises", "other", "scene"}, objects : 0 .. MaxObjects]

\* An eval_scene that reports every failure after the execution as Exec.
map_err_exec(st) ==
    CASE st = "compile" -> "Compile"
      [] st = "exec" -> "Exec"
      [] st = "compile_call" -> "Compile"
      [] st = "eval" -> "Exec"
      [] st = "downcast" -> "Exec"

\* The EvalError each stage's failure is mapped to by map_err.
map_err(st) ==
    CASE st = "compile" -> "Compile"
      [] st = "exec" -> "Exec"
      [] st = "compile_call" -> "Compile"
      [] st = "eval" -> "Eval"
      [] st = "downcast" -> "Eval"

\* The stage after st.
NextStage(st) ==
    CASE st = "compile" -> "exec"
      [] st = "exec" -> "compile_call"
      [] st = "compile_call" -> "eval"
      [] st = "eval" -> "downcast"
      [] st = "downcast" -> "take"
      [] st = "take" -> "done"

\* `?`: the stage st having run, go on if it succeeded, return its error
\* otherwise.
Try(st, succeeded) ==
    /\ ran' = Append(ran, st)
    /\ IF succeeded
       THEN /\ stage' = NextStage(st)
            /\ outcome' = outcome
       ELSE /\ stage' = "done"
            /\ outcome' = [ok |-> FALSE, err |-> map_err(st)]
    /\ UNCHANGED source
    /\ UNCHANGED notEval

EvalInit ==
    /\ source \in Sources
    /\ stage = "compile"
    /\ ran = <<>>
    /\ outcome = <<>>
    /\ IdleButEval

\* vm.compile(source, CompileMode::Exec, ..).map_err(EvalError::Compile)?
EvalCompile == stage = "compile" /\ Try("compile", source.compiles)

\* vm.run_code_obj(code, scope.clone()).map_err(EvalError::Exec)?
EvalExec == stage = "exec" /\ Try("exec", source.runs)

\* vm.compile("scene()", CompileMode::Eval, ..).map_err(EvalError::Compile)?
EvalCompileCall == stage = "compile_call" /\ Try("compile_call", TRUE)

\* vm.run_code_obj(code, scope).map_err(EvalError::Eval)?
EvalRun == stage = "eval" /\ Try("eval", source.call # "raises")

\* result.downcast::<PyScene>().map_err(EvalError::Eval)?
EvalDowncast == stage = "downcast" /\ Try("downcast", source.call = "scene")

\* let scene = py_scene.take(); Ok(scene)
EvalTake ==
    /\ stage = "take"
    /\ ran' = Append(ran, "take")
    /\ stage' = "done"
    /\ outcome' = [ok |-> TRUE, scene |-> [objects |-> source.objects]]
    /\ UNCHANGED source
    /\ UNCHANGED notEval

EvalNext ==
    \/ EvalCompile \/ EvalExec \/ EvalCompileCall
    \/ EvalRun \/ EvalDowncast \/ EvalTake

SpecEval == EvalInit /\ [][EvalNext]_vars

-----------------------------------------------------------------------------
(* Claims about eval_scene.                                                *)

\* The first stage that fails on the source, 0 if none does.
FirstFailing ==
    IF ~source.compiles THEN 1
    ELSE IF ~source.runs THEN 2
    ELSE IF source.call = "raises" THEN 4
    ELSE IF source.call = "other" THEN 5
    ELSE 0

\* C16: eval_scene runs its stages in order (compile, execute, compile and
\* evaluate "scene()", downcast, take) and returns Ok(scene) only if every
\* stage succeeds; otherwise it returns the error of the first failing
\* stage (Compile for a compile failure, Exec for an execution failure,
\* Eval for an evaluation or downcast failure) and runs no later stage.  A
\* source that defines a scene() returning a scene evaluates without error.
C16_StagesInOrder ==
    /\ Len(ran) <= Len(Stages)
    /\ \A i \in 1 .. Len(ran) : ran[i] = Stages[i]
    /\ outcome # <<>> =>
          /\ outcome.ok <=> FirstFailing = 0
          /\ outcome.ok =>
                /\ ran = Stages
                /\ outcome.scene = [objects |-> source.objects]
          /\ ~outcome.ok =>
                /\ Len(ran) = FirstFailing
                /\ outcome.err = CASE FirstFailing = 1 -> "Compile"
                                   [] FirstFailing = 2 -> "Exec"
                                   [] FirstFailing = 4 -> "Eval"
                                   [] FirstFailing = 5 -> "Eval"
    /\ (outcome # <<>> /\ source.compiles /\ source.runs
          /\ source.call = "scene") => outcome.ok

\* eval_scene stopped at the downcast: scene() returned something that is
\* not a scene, the error is Eval and take was not reached.
C16_Witness ==
    /\ outcome # <<>>
    /\ ~outcome.ok
    /\ outcome.err = "Eval"
    /\ source.call = "other"
    /\ ran = <<"compile", "exec", "compile_call", "eval", "downcast">>

-----------------------------------------------------------------------------
(* PyFuture, trt-dsl/src/future.rs.                                        *)
(*                                                                         *)
(* PyFuture::new(fut) is fut.boxed_local().shared(): a Shared cell that    *)
(* every clone and every future from shared() points to.  map wraps a      *)
(* clone of the cell and the function in a second cell.  A LocalBoxFuture  *)
(* stays on one thread, so the polls interleave and never overlap.  A      *)
(* poll of a handle finds the output in its cell, or polls what the cell   *)
(* holds; a handle that finds nothing is registered and is polled again    *)
(* once woken.                                                             *)

\* Most futures awaited on one PyFuture.
MaxHandles == 3

\* Most events the underlying future waits for before it is ready.
MaxEvents == 2

\* A cell without an output yet.
NoOutput == [none |-> TRUE]

\* The function handed to map.
MapF(x) == x + 10

\* A cell that never finds a stored output.
NeverComplete(cell) == FALSE

\* Shared::poll: the output is already in the cell.
IsComplete(cell) == cell # NoOutput

\* The kinds of awaited futures: from shared() of the PyFuture itself, and
\* from shared() of the PyFuture that map returned.
HandleKinds == {"shared", "mapped"}

FutureInit ==
    /\ inner \in [left : 0 .. MaxEvents, runs : {0}, output : {1, 2}]
    /\ shared = [base |-> NoOutput, mapped |-> NoOutput, waiters |-> {},
                 fRuns |-> 0]
    /\ \E n \in 1 .. MaxHandles :
          /\ handles \in [1 .. n -> [kind : HandleKinds, state : {"pending"},
                                     polls : {0}, value : {0}]]
          /\ woken = 1 .. n
    /\ IdleButFuture

\* The handle h after a poll that returned Ready(x).
Ready(h, x) ==
    [handles EXCEPT ![h] = [@ EXCEPT !.state = "done", !.value = x,
                                     !.polls = @ + 1]]

\* The handle h after a poll that returned Pending.
Pending(h) == [handles EXCEPT ![h] = [@ EXCEPT !.polls = @ + 1]]

\* A poll of a future obtained from shared().
FuturePollShared(h) ==
    /\ h \in woken
    /\ handles[h].kind = "shared"
    /\ handles[h].state = "pending"
    /\ IF IsComplete(shared.base)
       THEN /\ handles' = Ready(h, shared.base.val)
            /\ woken' = woken \ {h}
            /\ UNCHANGED <<inner, shared>>
       ELSE IF inner.left = 0
       THEN /\ inner' = [inner EXCEPT !.runs = @ + 1]
            /\ shared' = [shared EXCEPT !.base = [val |-> inner.output],
                                        !.waiters = {}]
            /\ handles' = Ready(h, inner.output)
            /\ woken' = (woken \ {h}) \cup shared.waiters
       ELSE /\ handles' = Pending(h)
            /\ shared' = [shared EXCEPT !.waiters = @ \cup {h}]
            /\ woken' = woken \ {h}
            /\ UNCHANGED inner
    /\ UNCHANGED notFuture

\* A poll of a future obtained from shared() of the mapped PyFuture.
FuturePollMapped(h) ==
    /\ h \in woken
    /\ handles[h].kind = "mapped"
    /\ handles[h].state = "pending"
    /\ IF IsComplete(shared.mapped)
       THEN /\ handles' = Ready(h, shared.mapped.val)
            /\ woken' = woken \ {h}
            /\ UNCHANGED <<inner, shared>>
       ELSE IF IsComplete(shared.base)
       THEN /\ shared' = [shared EXCEPT
                             !.mapped = [val |-> MapF(shared.base.val)],
                             !.fRuns = @ + 1]
            /\ handles' = Ready(h, MapF(shared.base.val))
            /\ woken' = (woken \ {h}) \cup shared.waiters
            /\ UNCHANGED inner
       ELSE IF inner.left = 0
       THEN /\ inner' = [inner EXCEPT !.runs = @ + 1]
            /\ shared' = [shared EXCEPT
                             !.base = [val |-> inner.output],
                             !.mapped = [val |-> MapF(inner.output)],
                             !.fRuns = @ + 1,
                             !.waiters = {}]
            /\ handles' = Ready(h, MapF(inner.output))
            /\ woken' = (woken \ {h}) \cup shared.waiters
       ELSE /\ handles' = Pending(h)
            /\ shared' = [shared EXCEPT !.waiters = @ \cup {h}]
            /\ woken' = woken \ {h}
            /\ UNCHANGED inner
    /\ UNCHANGED notFuture

\* An event the underlying future waits for: its waker, the cell's
\* notifier, wakes every registered handle.
FutureEvent ==
    /\ inner.left > 0
    /\ inner' = [inner EXCEPT !.left = @ - 1]
    /\ woken' = woken \cup shared.waiters
    /\ UNCHANGED <<shared, handles>>
    /\ UNCHANGED notFuture

FutureNext ==
    \/ \E h \in DOMAIN handles : FuturePollShared(h)
    \/ \E h \in DOMAIN handles : FuturePollMapped(h)
    \/ FutureEvent

SpecFuture == FutureInit /\ [][FutureNext]_vars

\* The executor polls woken tasks and the awaited events happen.
SpecFutureFair == SpecFuture /\ WF_vars(FutureNext)

-----------------------------------------------------------------------------
(* Claims about PyFuture.                                                  *)

\* Every awaited future has completed.
AllDone ==
    handles # <<>> /\ \A h \in DOMAIN handles : handles[h].state = "done"

\* The underlying future has run to completion at most once, the mapped
\* function at most once, and every completed awaiter holds a copy of the
\* one output (mapped, for the futures derived through map).
RunsOnce ==
    handles # <<>> =>
        /\ inner.runs <= 1
        /\ shared.fRuns <= 1
        /\ \A h \in DOMAIN handles :
              handles[h].state = "done" =>
                 /\ inner.runs = 1
                 /\ handles[h].value
                      = IF handles[h].kind = "shared" THEN inner.output
                        ELSE MapF(inner.output)

====
